---- MODULE Spec2Model ----
(***************************************************************************)
(* Model of the diff engine of agent-replay-diff: the value normalizer     *)
(* (stableSortKeys, toPrettyJSON), the line diff (computeOps), the split   *)
(* projection (opsToSplitRows) and the DiffView component that chains them.*)
(*                                                                         *)
(* A text is a sequence of one-character strings, so that split("\n"),     *)
(* JSON.stringify's indentation and line equality are computed, not        *)
(* assumed.  Source indices are 0-based; sequences here are 1-based, so    *)
(* a[i] of the source is a[i + 1] here.                                    *)
(***************************************************************************)
EXTENDS Integers, Sequences, FiniteSets, TLC

VARIABLES left, right, mode, leftText, rightText, ops, splitRows, hasChanges,
          shown, status,
          \* JsonView: its props, the parsed value, the collapsed state of every
          \* mounted JsonNode, the rendered nodes, and what the user chose
          viewValue, defaultCollapsedDepth, data, collapsed, nodes, viewStatus,
          chosen, chosenEver, mountedWith,
          \* the pages: the matched pair and the span they show, and the
          \* panels they render
          matched, span, page, panels,
          \* RunsDndCompare: its state and the diff requests it has issued
          dndLeft, dndRight, open, diff, issued, outcome, cleared,
          \* ReplayButton: its state, the request it has on the way or the
          \* outcome of the last one, and the number of clicks so far
          loading, error, result, replayRequest, clicks

diffVars == <<left, right, mode, leftText, rightText, ops, splitRows, hasChanges,
              shown, status>>

treeVars == <<viewValue, defaultCollapsedDepth, data, collapsed, nodes, viewStatus,
              chosen, chosenEver, mountedWith>>

pageVars == <<matched, span, page, panels>>

dndVars == <<dndLeft, dndRight, open, diff, issued, outcome, cleared>>

replayVars == <<loading, error, result, replayRequest, clicks>>

vars == <<diffVars, treeVars, pageVars, dndVars, replayVars>>

\* no JsonNode is mounted
NoFlags == [p \in {} |-> FALSE]
NoNodes == [p \in {} |-> <<>>]

\* the component is not on the screen
DiffIdle ==
  /\ left = [kind |-> "undefined"]
  /\ right = [kind |-> "undefined"]
  /\ mode = "split"
  /\ leftText = <<>>
  /\ rightText = <<>>
  /\ ops = <<>>
  /\ splitRows = <<>>
  /\ hasChanges = FALSE
  /\ shown = <<>>
  /\ status = "idle"

TreeIdle ==
  /\ viewValue = [kind |-> "undefined"]
  /\ defaultCollapsedDepth = 0
  /\ data = [kind |-> "undefined"]
  /\ collapsed = NoFlags
  /\ nodes = NoNodes
  /\ viewStatus = "idle"
  /\ chosen = NoFlags
  /\ chosenEver = NoFlags
  /\ mountedWith = NoFlags

PagesIdle ==
  /\ matched = [kind |-> "undefined"]
  /\ span = [kind |-> "undefined"]
  /\ page = "idle"
  /\ panels = <<>>

ReplayIdle ==
  /\ loading = FALSE
  /\ error = [kind |-> "null"]
  /\ result = [kind |-> "null"]
  /\ replayRequest = [state |-> "none"]
  /\ clicks = 0

DndIdle ==
  /\ dndLeft = [kind |-> "null"]
  /\ dndRight = [kind |-> "null"]
  /\ open = FALSE
  /\ diff = [kind |-> "null"]
  /\ issued = <<>>
  /\ outcome = <<>>
  /\ cleared = FALSE

(***************************************************************************)
(* Bounds of the model.                                                    *)
(***************************************************************************)
\* longest text (in characters) given to computeOps directly
MaxTextLen == 3
\* most entries of an array or an object in the values given to DiffView
MaxItems == 2

(***************************************************************************)
(* Texts and lines.                                                        *)
(***************************************************************************)
NL == "\n"

\* the characters of the texts given to computeOps directly
TextChars == {"a", "b", NL}

SeqsUpTo(S, n) == UNION {[1..k -> S] : k \in 0..n}

Texts == SeqsUpTo(TextChars, MaxTextLen)

Max(x, y) == IF x >= y THEN x ELSE y

RECURSIVE SplitAcc(_, _, _)
SplitAcc(text, lines, cur) ==
  IF text = <<>> THEN Append(lines, cur)
  ELSE IF Head(text) = NL
       THEN SplitAcc(Tail(text), Append(lines, cur), <<>>)
       ELSE SplitAcc(Tail(text), lines, Append(cur, Head(text)))

\* String.prototype.split("\n"): "" gives one empty line
split(text) == SplitAcc(text, <<>>, <<>>)

(***************************************************************************)
(* computeOps.                                                             *)
(***************************************************************************)
\* a[i] === b[j]
SameLineFalsy(x, y) == x # <<>> /\ x = y
SameLine(x, y) == x = y

\* lcs[i][j] from the cells lcs[i+1][j+1], lcs[i+1][j] and lcs[i][j+1]
LcsCellMin(same, diag, down, across) ==
  IF same THEN diag + 1 ELSE IF down <= across THEN down ELSE across
LcsCell(same, diag, down, across) ==
  IF same THEN diag + 1 ELSE Max(down, across)

\* row i of the table from row i + 1 (below), for j = n - 1 down to 0;
\* a row is the sequence of its cells lcs[i][0..n]
RECURSIVE LcsRow(_, _, _, _, _)
LcsRow(a, b, i, below, j) ==
  IF j = Len(b) THEN <<0>>
  ELSE LET rest == LcsRow(a, b, i, below, j + 1)
       IN  <<LcsCell(SameLine(a[i + 1], b[j + 1]),
                     below[j + 2], below[j + 1], rest[1])>> \o rest

\* rows i..m of the table, for i = m - 1 down to 0; row m is all zeros
RECURSIVE LcsRows(_, _, _)
LcsRows(a, b, i) ==
  IF i = Len(a) THEN <<[j \in 1..(Len(b) + 1) |-> 0]>>
  ELSE LET rest == LcsRows(a, b, i + 1)
       IN  <<LcsRow(a, b, i, rest[1], 0)>> \o rest

\* the table lcs of (m + 1) x (n + 1) cells
LcsTable(a, b) ==
  LET rows == LcsRows(a, b, 0)
  IN  [i \in 0..Len(a), j \in 0..Len(b) |-> rows[i + 1][j + 1]]

\* the tie-break of the forward walk
PreferDelStrict(lcs, i, j) == lcs[i + 1, j] > lcs[i, j + 1]
PreferDelReversed(lcs, i, j) == lcs[i + 1, j] <= lcs[i, j + 1]
PreferDel(lcs, i, j) == lcs[i + 1, j] >= lcs[i, j + 1]

ContextOp(l, r) == [type |-> "context", left |-> l, right |-> r]
DelOp(l) == [type |-> "del", left |-> l]
AddOp(r) == [type |-> "add", right |-> r]

\* while (i < m) ops.push({ type: "del", left: a[i++] })
DrainLeft(a, i) == [k \in 1..(Len(a) - i) |-> DelOp(a[i + k])]

\* while (j < n) ops.push({ type: "add", right: b[j++] })
DrainRightSkipsOne(b, j) == [k \in 1..(Len(b) - j - 1) |-> AddOp(b[j + 1 + k])]
DrainRight(b, j) == [k \in 1..(Len(b) - j) |-> AddOp(b[j + k])]

RECURSIVE Walk(_, _, _, _, _, _)
Walk(a, b, lcs, i, j, acc) ==
  IF i < Len(a) /\ j < Len(b)
  THEN IF SameLine(a[i + 1], b[j + 1])
       THEN Walk(a, b, lcs, i + 1, j + 1, Append(acc, ContextOp(a[i + 1], b[j + 1])))
       ELSE IF PreferDel(lcs, i, j)
            THEN Walk(a, b, lcs, i + 1, j, Append(acc, DelOp(a[i + 1])))
            ELSE Walk(a, b, lcs, i, j + 1, Append(acc, AddOp(b[j + 1])))
  ELSE acc \o DrainLeft(a, i) \o DrainRight(b, j)

computeOps(lText, rText) ==
  LET a == split(lText)
      b == split(rText)
  IN  Walk(a, b, LcsTable(a, b), 0, 0, <<>>)

(***************************************************************************)
(* opsToSplitRows.                                                         *)
(***************************************************************************)
\* prev && prev.type === "del" && !prev.right
CanMergeNever(rows) == FALSE
CanMergeIntoChange(rows) ==
  /\ rows # <<>>
  /\ rows[Len(rows)].type \in {"del", "change"}
CanMerge(rows) ==
  /\ rows # <<>>
  /\ rows[Len(rows)].type = "del"
  /\ rows[Len(rows)].right = <<>>

ContextRow(op) == [type |-> "context", left |-> op.left, right |-> op.right]
DelRow(op) == [type |-> "del", left |-> op.left, right |-> <<>>]
AddRowBothSides(op) == [type |-> "add", left |-> op.right, right |-> op.right]
AddRow(op) == [type |-> "add", left |-> <<>>, right |-> op.right]

\* prev.type = "change"; prev.right = op.right
MergeIntoOverwritesLeft(rows, op) ==
  [rows EXCEPT ![Len(rows)] = [type |-> "change", left |-> op.right, right |-> op.right]]
MergeInto(rows, op) ==
  [rows EXCEPT ![Len(rows)] = [@ EXCEPT !.type = "change", !.right = op.right]]

PushRow(rows, op) ==
  IF op.type = "context" THEN Append(rows, ContextRow(op))
  ELSE IF op.type = "del" THEN Append(rows, DelRow(op))
  ELSE IF CanMerge(rows) THEN MergeInto(rows, op)
  ELSE Append(rows, AddRow(op))

RECURSIVE FoldRows(_, _)
FoldRows(rows, rest) ==
  IF rest = <<>> THEN rows ELSE FoldRows(PushRow(rows, Head(rest)), Tail(rest))

opsToSplitRows(script) == FoldRows(<<>>, script)

\* ops.some((o) => o.type !== "context")
SomeNonContextDelOnly(script) == \E k \in 1..Len(script) : script[k].type = "del"
SomeNonContext(script) == \E k \in 1..Len(script) : script[k].type # "context"

(***************************************************************************)
(* Values handed to DiffView.  A JSON value is null, a number, a string    *)
(* (a sequence of characters), an array, or an object whose keys are kept  *)
(* in the order in which JavaScript enumerates own properties.             *)
(***************************************************************************)
Undefined == [kind |-> "undefined"]
Null == [kind |-> "null"]
Num(n) == [kind |-> "num", v |-> n]
Str(s) == [kind |-> "str", v |-> s]
Arr(items) == [kind |-> "arr", items |-> items]
EmptyObj == [kind |-> "obj", keys |-> <<>>, vals |-> <<>>]

\* a value whose key-sorted serialization throws (a nesting deeper than the
\* call stack, a cycle, a BigInt): json is what JSON.stringify sees of it,
\* raw and str tell whether JSON.stringify(value) and String(value) throw
Opaque(json, raw, str) == [kind |-> "opaque", json |-> json, raw |-> raw, str |-> str]

Thrown == [kind |-> "thrown"]

IsDigit(c) == c \in {"0", "1", "2", "3", "4", "5", "6", "7", "8", "9"}

DigitVal(c) ==
  CASE c = "0" -> 0 [] c = "1" -> 1 [] c = "2" -> 2 [] c = "3" -> 3
    [] c = "4" -> 4 [] c = "5" -> 5 [] c = "6" -> 6 [] c = "7" -> 7
    [] c = "8" -> 8 [] c = "9" -> 9

\* UTF-16 code unit of the characters used in keys
CharCode(c) == IF IsDigit(c) THEN 48 + DigitVal(c) ELSE IF c = "a" THEN 97 ELSE 98

\* an array-index key ("0", "9", "10"): enumerated before all other keys
IsIndexKey(key) ==
  /\ Len(key) >= 1
  /\ \A k \in 1..Len(key) : IsDigit(key[k])
  /\ Len(key) = 1 \/ key[1] # "0"

RECURSIVE IndexVal(_)
IndexVal(key) ==
  IF key = <<>> THEN 0
  ELSE 10 * IndexVal(SubSeq(key, 1, Len(key) - 1)) + DigitVal(key[Len(key)])

\* x < y as strings, by code units
RECURSIVE KeyLess(_, _)
KeyLess(x, y) ==
  IF y = <<>> THEN FALSE
  ELSE IF x = <<>> THEN TRUE
  ELSE IF Head(x) = Head(y) THEN KeyLess(Tail(x), Tail(y))
  ELSE CharCode(Head(x)) < CharCode(Head(y))

InsertAt(s, pos, x) == SubSeq(s, 1, pos - 1) \o <<x>> \o SubSeq(s, pos, Len(s))

RECURSIVE InsertSorted(_, _)
InsertSorted(sorted, key) ==
  IF sorted = <<>> THEN <<key>>
  ELSE IF KeyLess(key, Head(sorted)) THEN <<key>> \o sorted
  ELSE <<Head(sorted)>> \o InsertSorted(Tail(sorted), key)

\* Array.prototype.sort() without a comparator, on distinct strings
RECURSIVE SortKeys(_)
SortKeys(keys) ==
  IF keys = <<>> THEN <<>>
  ELSE InsertSorted(SortKeys(Tail(keys)), Head(keys))

\* where a new property lands in the enumeration order of an object
NewKeyPos(keys, key) ==
  IF IsIndexKey(key)
  THEN 1 + Cardinality({k \in 1..Len(keys) :
                          IsIndexKey(keys[k]) /\ IndexVal(keys[k]) < IndexVal(key)})
  ELSE Len(keys) + 1

\* out[key] = val
PropSet(obj, key, val) ==
  IF \E k \in 1..Len(obj.keys) : obj.keys[k] = key
  THEN LET k == CHOOSE k \in 1..Len(obj.keys) : obj.keys[k] = key
       IN  [obj EXCEPT !.vals[k] = val]
  ELSE LET pos == NewKeyPos(obj.keys, key)
       IN  [obj EXCEPT !.keys = InsertAt(@, pos, key), !.vals = InsertAt(@, pos, val)]

\* value[key]
PropGet(obj, key) == obj.vals[CHOOSE k \in 1..Len(obj.keys) : obj.keys[k] = key]

\* the object a JSON text with these entries, in this order, parses to
RECURSIVE MkObj(_)
MkObj(entries) ==
  IF entries = <<>> THEN EmptyObj
  ELSE PropSet(MkObj(SubSeq(entries, 1, Len(entries) - 1)),
               entries[Len(entries)][1], entries[Len(entries)][2])

(***************************************************************************)
(* stableSortKeys and toPrettyJSON.                                        *)
(***************************************************************************)
RECURSIVE stableSortKeys(_)

RECURSIVE SortedCopy(_, _, _)
SortedCopy(out, value, keys) ==
  IF keys = <<>> THEN out
  ELSE LET child == stableSortKeys(PropGet(value, Head(keys)))
       IN  IF child = Thrown THEN Thrown
           ELSE SortedCopy(PropSet(out, Head(keys), child), value, Tail(keys))

\* the copy without the recursive calls: only the keys of the value itself
\* are sorted
RECURSIVE ShallowCopy(_, _, _)
ShallowCopy(out, value, keys) ==
  IF keys = <<>> THEN out
  ELSE ShallowCopy(PropSet(out, Head(keys), PropGet(value, Head(keys))), value, Tail(keys))

stableSortKeysShallow(value) ==
  IF value.kind = "obj" THEN ShallowCopy(EmptyObj, value, SortKeys(value.keys))
  ELSE IF value.kind = "opaque" THEN Thrown
  ELSE value

stableSortKeys(value) ==
  IF value.kind = "arr"
  THEN LET items == [k \in 1..Len(value.items) |-> stableSortKeys(value.items[k])]
       IN  IF \E k \in 1..Len(items) : items[k] = Thrown THEN Thrown ELSE Arr(items)
  ELSE IF value.kind = "obj"
  THEN SortedCopy(EmptyObj, value, SortKeys(value.keys))
  ELSE IF value.kind = "opaque" THEN Thrown
  ELSE value

Spaces(n) == [k \in 1..n |-> " "]

RECURSIVE Digits(_)
Digits(n) ==
  LET d == <<"0", "1", "2", "3", "4", "5", "6", "7", "8", "9">>[(n % 10) + 1]
  IN  IF n < 10 THEN <<d>> ELSE Digits(n \div 10) \o <<d>>

EscapeChar(c) ==
  IF c = NL THEN <<"\\", "n">>
  ELSE IF c = "\"" THEN <<"\\", "\"">>
  ELSE IF c = "\\" THEN <<"\\", "\\">>
  ELSE <<c>>

RECURSIVE Quote(_)
Quote(s) == IF s = <<>> THEN <<>> ELSE EscapeChar(Head(s)) \o Quote(Tail(s))

Quoted(s) == <<"\"">> \o Quote(s) \o <<"\"">>

RECURSIVE Joined(_, _)
Joined(parts, indent) ==
  IF Len(parts) = 1 THEN Spaces(indent) \o parts[1]
  ELSE Spaces(indent) \o Head(parts) \o <<",", NL>> \o Joined(Tail(parts), indent)

\* JSON.stringify(value, null, 2) of a JSON value, at the given indentation
RECURSIVE Serialize(_, _)
Serialize(value, indent) ==
  CASE value.kind = "null" -> <<"n", "u", "l", "l">>
    [] value.kind = "num" -> Digits(value.v)
    [] value.kind = "str" -> Quoted(value.v)
    [] value.kind = "arr" ->
         IF value.items = <<>> THEN <<"[", "]">>
         ELSE <<"[", NL>>
              \o Joined([k \in 1..Len(value.items) |->
                           Serialize(value.items[k], indent + 2)], indent + 2)
              \o <<NL>> \o Spaces(indent) \o <<"]">>
    [] value.kind = "obj" ->
         IF value.keys = <<>> THEN <<"{", "}">>
         ELSE <<"{", NL>>
              \o Joined([k \in 1..Len(value.keys) |->
                           Quoted(value.keys[k]) \o <<":", " ">>
                           \o Serialize(value.vals[k], indent + 2)], indent + 2)
              \o <<NL>> \o Spaces(indent) \o <<"}">>

\* String(value) of a value that is no JSON value
ObjectObject ==
  <<"[", "o", "b", "j", "e", "c", "t", " ", "O", "b", "j", "e", "c", "t", "]">>

Returned(text) == [raised |-> FALSE, text |-> text]
Raised == [raised |-> TRUE, text |-> <<>>]

\* return String(value), outside every try block
StringFallback(value) ==
  IF value.str = "throws" THEN Raised ELSE Returned(ObjectObject)

\* try { return JSON.stringify(value, null, 2) } catch { return String(value) }
RawFallback(value) ==
  IF value.raw = "throws" THEN StringFallback(value)
  ELSE Returned(Serialize(value.json, 0))

toPrettyJSON(value) ==
  IF value = Undefined THEN Returned(<<>>)
  ELSE LET sorted == stableSortKeys(value)
       IN  IF sorted = Thrown THEN RawFallback(value)
           ELSE Returned(Serialize(sorted, 0))

(***************************************************************************)
(* DiffView: one render computes leftText, rightText, ops, splitRows and   *)
(* hasChanges from the props and shows the rows (split) or the prefixed    *)
(* lines (unified).  The useMemo hooks cache pure functions of their       *)
(* dependencies, so a render is modelled as recomputing them.              *)
(***************************************************************************)
Modes == {"split", "unified"}

UnifiedLine(op) ==
  IF op.type = "add" THEN <<"+", " ">> \o op.right
  ELSE IF op.type = "del" THEN <<"-", " ">> \o op.left
  ELSE <<" ", " ">> \o op.left

\* what the body of the view shows
Shown(m, script, rows) ==
  IF m = "split"
  THEN [k \in 1..Len(rows) |-> <<rows[k].left, rows[k].right>>]
  ELSE [k \in 1..Len(script) |-> UnifiedLine(script[k])]

\* the render of DiffView with props l, r and m
Render(l, r, m) ==
  LET lt == toPrettyJSON(l)
      rt == toPrettyJSON(r)
      script == computeOps(lt.text, rt.text)
      rows == opsToSplitRows(script)
  IN  IF lt.raised \/ rt.raised
      THEN [leftText |-> <<>>, rightText |-> <<>>, ops |-> <<>>, splitRows |-> <<>>,
            hasChanges |-> FALSE, shown |-> <<>>, status |-> "raised"]
      ELSE [leftText |-> lt.text, rightText |-> rt.text, ops |-> script,
            splitRows |-> rows, hasChanges |-> SomeNonContext(script),
            shown |-> Shown(m, script, rows), status |-> "rendered"]

\* the values the props are drawn from
ElemValues == {Num(1), Num(2)}

Keys == {<<"a">>, <<"b">>, <<"9">>, <<"1", "0">>}

EntrySeqs ==
  {es \in SeqsUpTo(Keys \X {Num(1)}, MaxItems) :
     \A h, k \in 1..Len(es) : h # k => es[h][1] # es[k][1]}

Objects == {MkObj(es) : es \in EntrySeqs}

Arrays == {Arr(items) : items \in SeqsUpTo(ElemValues, MaxItems)}

AB == MkObj(<<<<<<"a">>, Num(1)>>, <<<<"b">>, Num(1)>>>>)
BA == MkObj(<<<<<<"b">>, Num(1)>>, <<<<"a">>, Num(1)>>>>)

Nested ==
  { MkObj(<<<<<<"a">>, AB>>>>), MkObj(<<<<<<"a">>, BA>>>>),
    Arr(<<Arr(<<Num(1), Num(2)>>)>>), Arr(<<BA>>) }

Scalars == {Null, Num(1), Str(<<"a", NL>>)}

JsonValues == Scalars \cup Arrays \cup Objects \cup Nested

OpaqueValues == {Opaque(BA, raw, str) : raw \in {"ok", "throws"}, str \in {"ok", "throws"}}

Values == {Undefined} \cup JsonValues \cup OpaqueValues

Init ==
  /\ left \in Values
  /\ right \in Values
  /\ mode \in Modes
  /\ \E out \in {Render(left, right, mode)} :
       /\ leftText = out.leftText
       /\ rightText = out.rightText
       /\ ops = out.ops
       /\ splitRows = out.splitRows
       /\ hasChanges = out.hasChanges
       /\ shown = out.shown
       /\ status = out.status
  /\ TreeIdle
  /\ PagesIdle
  /\ DndIdle
  /\ ReplayIdle

\* the parent renders DiffView again with props l, r and m
Rerender(l, r, m) ==
  /\ status = "rendered"
  /\ left' = l
  /\ right' = r
  /\ mode' = m
  /\ \E out \in {Render(l, r, m)} :
       /\ leftText' = out.leftText
       /\ rightText' = out.rightText
       /\ ops' = out.ops
       /\ splitRows' = out.splitRows
       /\ hasChanges' = out.hasChanges
       /\ shown' = out.shown
       /\ status' = out.status
  /\ UNCHANGED <<treeVars, pageVars, dndVars, replayVars>>

ChangeLeft == \E v \in Values \ {left} : Rerender(v, right, mode)

ChangeRight == \E v \in Values \ {right} : Rerender(left, v, mode)

ChangeMode == \E m \in Modes \ {mode} : Rerender(left, right, m)

Next == ChangeLeft \/ ChangeRight \/ ChangeMode

Spec == Init /\ [][Next]_vars

(***************************************************************************)
(* The diff pipeline applied to arbitrary texts: the inputs of computeOps  *)
(* are drawn from Texts, then computeOps and opsToSplitRows are applied.   *)
(* The props left, right and mode play no part here.                       *)
(***************************************************************************)
InitOps ==
  /\ leftText \in Texts
  /\ rightText \in Texts
  /\ left = Undefined
  /\ right = Undefined
  /\ mode = "split"
  /\ ops = <<>>
  /\ splitRows = <<>>
  /\ hasChanges = FALSE
  /\ shown = <<>>
  /\ status = "input"
  /\ TreeIdle
  /\ PagesIdle
  /\ DndIdle
  /\ ReplayIdle

RunComputeOps ==
  /\ status = "input"
  /\ ops' = computeOps(leftText, rightText)
  /\ hasChanges' = SomeNonContext(ops')
  /\ status' = "ops"
  /\ UNCHANGED <<left, right, mode, leftText, rightText, splitRows, shown>>
  /\ UNCHANGED <<treeVars, pageVars, dndVars, replayVars>>

RunOpsToSplitRows ==
  /\ status = "ops"
  /\ splitRows' = opsToSplitRows(ops)
  /\ status' = "rows"
  /\ UNCHANGED <<left, right, mode, leftText, rightText, ops, hasChanges, shown>>
  /\ UNCHANGED <<treeVars, pageVars, dndVars, replayVars>>

NextOps == RunComputeOps \/ RunOpsToSplitRows

SpecOps == InitOps /\ [][NextOps]_vars

(***************************************************************************)
(* Vocabulary of the properties.                                           *)
(***************************************************************************)
OpsDone == status \in {"ops", "rows", "rendered"}
RowsDone == status \in {"rows", "rendered"}

A == split(leftText)
B == split(rightText)

RECURSIVE LeftLines(_)
LeftLines(script) ==
  IF script = <<>> THEN <<>>
  ELSE (IF Head(script).type \in {"context", "del"}
        THEN <<Head(script).left>> ELSE <<>>) \o LeftLines(Tail(script))

RECURSIVE RightLines(_)
RightLines(script) ==
  IF script = <<>> THEN <<>>
  ELSE (IF Head(script).type \in {"context", "add"}
        THEN <<Head(script).right>> ELSE <<>>) \o RightLines(Tail(script))

CountType(script, t) == Cardinality({k \in 1..Len(script) : script[k].type = t})

RECURSIVE IsSubseq(_, _)
IsSubseq(s, t) ==
  IF s = <<>> THEN TRUE
  ELSE IF t = <<>> THEN FALSE
  ELSE IF Head(s) = Head(t) THEN IsSubseq(Tail(s), Tail(t))
  ELSE IsSubseq(s, Tail(t))

RECURSIVE Pick(_, _, _)
Pick(s, I, k) ==
  IF k > Len(s) THEN <<>>
  ELSE (IF k \in I THEN <<s[k]>> ELSE <<>>) \o Pick(s, I, k + 1)

\* length of a longest common subsequence, by enumeration of the subsequences
LCSLen(s, t) ==
  LET common == {I \in SUBSET (1..Len(s)) : IsSubseq(Pick(s, I, 1), t)}
  IN  CHOOSE c \in 0..Len(s) :
        /\ \E I \in common : Cardinality(I) = c
        /\ \A I \in common : Cardinality(I) <= c

Suffix(s, i) == SubSeq(s, i + 1, Len(s))

\* position (i, j) of the walk when it emits ops[k]
PosI(script, k) ==
  Cardinality({h \in 1..(k - 1) : script[h].type \in {"context", "del"}})
PosJ(script, k) ==
  Cardinality({h \in 1..(k - 1) : script[h].type \in {"context", "add"}})

(***************************************************************************)
(* C1: the script is valid: the left lines of its context and del ops are  *)
(* exactly a, the right lines of its context and add ops are exactly b,    *)
(* and every context op has left = right.                                  *)
(***************************************************************************)
C1_ScriptValid ==
  OpsDone =>
    /\ LeftLines(ops) = A
    /\ RightLines(ops) = B
    /\ \A k \in 1..Len(ops) :
         /\ ops[k].type \in {"context", "del", "add"}
         /\ ops[k].type = "context" => ops[k].left = ops[k].right

C1_Witness ==
  /\ status = "ops"
  /\ CountType(ops, "context") >= 1
  /\ CountType(ops, "del") >= 1
  /\ CountType(ops, "add") >= 1

(***************************************************************************)
(* C2: the script is minimal: it has as many context ops as a longest      *)
(* common subsequence of a and b is long, hence m + n - 2*LCS other ops.   *)
(***************************************************************************)
C2_ScriptMinimal ==
  OpsDone =>
    /\ CountType(ops, "context") = LCSLen(A, B)
    /\ Len(ops) - CountType(ops, "context") = Len(A) + Len(B) - 2 * LCSLen(A, B)

C2_Witness ==
  /\ status = "ops"
  /\ LCSLen(A, B) >= 1
  /\ Len(A) > LCSLen(A, B)
  /\ ~ SameLine(A[1], B[1])

(***************************************************************************)
(* C3: computeOps(t, t) has only context ops, one per line of t (also for  *)
(* the empty text), and hasChanges is then false.                          *)
(***************************************************************************)
C3_SameTextAllContext ==
  (OpsDone /\ leftText = rightText) =>
    /\ Len(ops) = Len(A)
    /\ \A k \in 1..Len(ops) : ops[k] = ContextOp(A[k], A[k])
    /\ ~ hasChanges

C3_Witness ==
  /\ status = "ops"
  /\ leftText = rightText
  /\ Len(ops) >= 2
  /\ \E k \in 1..Len(ops) : ops[k].left = <<>>

(***************************************************************************)
(* C4: every op is the one the forward walk prescribes at its position     *)
(* (i, j): context on equal lines; otherwise a delete of a[i] iff          *)
(* LCS(a[i+1:], b[j:]) >= LCS(a[i:], b[j+1:]), else an insert of b[j];     *)
(* with one side exhausted, the rest of a as deletes, then the rest of b   *)
(* as inserts.                                                             *)
(***************************************************************************)
Prescribed(k) ==
  LET i == PosI(ops, k)
      j == PosJ(ops, k)
  IN  IF i < Len(A) /\ j < Len(B)
      THEN IF A[i + 1] = B[j + 1] THEN ContextOp(A[i + 1], B[j + 1])
           ELSE IF LCSLen(Suffix(A, i + 1), Suffix(B, j))
                     >= LCSLen(Suffix(A, i), Suffix(B, j + 1))
                THEN DelOp(A[i + 1])
                ELSE AddOp(B[j + 1])
      ELSE IF i < Len(A) THEN DelOp(A[i + 1])
      ELSE IF j < Len(B) THEN AddOp(B[j + 1])
      ELSE [type |-> "none"]

C4_ForwardWalk ==
  OpsDone =>
    /\ \A k \in 1..Len(ops) : ops[k] = Prescribed(k)
    /\ PosI(ops, Len(ops) + 1) = Len(A)
    /\ PosJ(ops, Len(ops) + 1) = Len(B)

\* a tie of the two LCS lengths resolved as a delete, and a strict insert
C4_Witness ==
  /\ status = "ops"
  /\ \E k \in 1..Len(ops) :
       LET i == PosI(ops, k)
           j == PosJ(ops, k)
       IN  /\ i < Len(A) /\ j < Len(B)
           /\ A[i + 1] # B[j + 1]
           /\ LCSLen(Suffix(A, i + 1), Suffix(B, j)) = LCSLen(Suffix(A, i), Suffix(B, j + 1))
           /\ LCSLen(Suffix(A, i + 1), Suffix(B, j)) >= 1
           /\ ops[k].type = "del"

(***************************************************************************)
(* C5: in the split rows no del row with an empty right side is directly   *)
(* followed by an add row.                                                 *)
(***************************************************************************)
C5_NoDelThenAdd ==
  RowsDone =>
    \A k \in 1..(Len(splitRows) - 1) :
      ~ (/\ splitRows[k].type = "del"
         /\ splitRows[k].right = <<>>
         /\ splitRows[k + 1].type = "add")

C5_Witness ==
  /\ status = "rows"
  /\ \E k \in 1..(Len(ops) - 1) : ops[k].type = "del" /\ ops[k + 1].type = "add"
  /\ \E k \in 1..Len(splitRows) : splitRows[k].type = "change"

(***************************************************************************)
(* C6: the shape of the rows.  As claimed: a change row has a left and a   *)
(* right text, an add row has no left field, a del row has no right field, *)
(* a context row has both and they are equal.                              *)
(***************************************************************************)
C6_ShapeAsClaimed ==
  RowsDone =>
    \A k \in 1..Len(splitRows) :
      LET row == splitRows[k]
      IN  /\ row.type = "change" => {"left", "right"} \subseteq DOMAIN row
          /\ row.type = "add" => "right" \in DOMAIN row /\ "left" \notin DOMAIN row
          /\ row.type = "del" => "left" \in DOMAIN row /\ "right" \notin DOMAIN row
          /\ row.type = "context" =>
               {"left", "right"} \subseteq DOMAIN row /\ row.left = row.right

\* C6, amended: every row has both fields; the left field of an add row and
\* the right field of a del row are the empty string; a change row has the
\* deleted line on the left and the inserted line on the right; the two
\* sides of a context row are equal.
C6_RowShape ==
  RowsDone =>
    \A k \in 1..Len(splitRows) :
      LET row == splitRows[k]
      IN  /\ DOMAIN row = {"type", "left", "right"}
          /\ row.type \in {"context", "add", "del", "change"}
          /\ row.type = "add" => row.left = <<>>
          /\ row.type = "del" => row.right = <<>>
          /\ row.type = "context" => row.left = row.right

C6_Witness ==
  /\ status = "rows"
  /\ \E k \in 1..Len(splitRows) : splitRows[k].type = "add" /\ splitRows[k].right # <<>>
  /\ \E k \in 1..Len(splitRows) : splitRows[k].type = "del" /\ splitRows[k].left # <<>>
  /\ \E k \in 1..Len(splitRows) : splitRows[k].type = "context"

(***************************************************************************)
(* C7: hasChanges is true iff the script has a non-context op, and iff the *)
(* split rows have a non-context row, in both display modes.               *)
(***************************************************************************)
C7_HasChangesAgree ==
  status = "rendered" =>
    /\ hasChanges <=> (\E k \in 1..Len(ops) : ops[k].type \in {"add", "del"})
    /\ hasChanges <=>
         (\E k \in 1..Len(splitRows) : splitRows[k].type \in {"add", "del", "change"})

\* a unified view whose script only inserts, so that no row is a del row
C7_Witness ==
  /\ status = "rendered"
  /\ mode = "unified"
  /\ hasChanges
  /\ CountType(ops, "del") = 0
  /\ CountType(ops, "context") >= 1

(***************************************************************************)
(* C8: with left undefined and right a defined value, the script has only  *)
(* insert ops (no delete, no context) and the unified view shows only      *)
(* lines prefixed "+ ".                                                    *)
(***************************************************************************)
C8_OnlyInserts ==
  (status = "rendered" /\ left = Undefined /\ right \in JsonValues) =>
    /\ \A k \in 1..Len(ops) : ops[k].type = "add"
    /\ mode = "unified" =>
         \A k \in 1..Len(shown) : SubSeq(shown[k], 1, 2) = <<"+", " ">>

(***************************************************************************)
(* C9: toPrettyJSON does not depend on the order of object keys and keeps  *)
(* the order of array elements.                                            *)
(***************************************************************************)
RECURSIVE SameUpToKeyOrder(_, _)
SameUpToKeyOrder(v, w) ==
  /\ v.kind = w.kind
  /\ CASE v.kind = "arr" ->
            /\ Len(v.items) = Len(w.items)
            /\ \A k \in 1..Len(v.items) : SameUpToKeyOrder(v.items[k], w.items[k])
       [] v.kind = "obj" ->
            /\ {v.keys[k] : k \in 1..Len(v.keys)} = {w.keys[k] : k \in 1..Len(w.keys)}
            /\ \A k \in 1..Len(v.keys) :
                 SameUpToKeyOrder(v.vals[k], PropGet(w, v.keys[k]))
       [] OTHER -> v = w

\* the keys of S in ascending order of their code units
RECURSIVE AscendingCode(_)
AscendingCode(S) ==
  IF S = {} THEN <<>>
  ELSE LET least == CHOOSE x \in S : \A y \in S \ {x} : KeyLess(x, y)
       IN  <<least>> \o AscendingCode(S \ {least})

\* the index keys of S in ascending numeric order
RECURSIVE AscendingIndex(_)
AscendingIndex(S) ==
  IF S = {} THEN <<>>
  ELSE LET least == CHOOSE x \in S : \A y \in S : IndexVal(x) <= IndexVal(y)
       IN  <<least>> \o AscendingIndex(S \ {least})

KeySet(v) == {v.keys[k] : k \in 1..Len(v.keys)}

\* index keys first, by number, then the other keys by code units
IndexKeysFirst(S) ==
  AscendingIndex({x \in S : IsIndexKey(x)}) \o AscendingCode({x \in S : ~ IsIndexKey(x)})

\* the value with the keys of every object in ascending order of code units
\* (byCode) or with the index keys first (otherwise)
RECURSIVE Reordered(_, _)
Reordered(v, byCode) ==
  CASE v.kind = "arr" ->
         Arr([k \in 1..Len(v.items) |-> Reordered(v.items[k], byCode)])
    [] v.kind = "obj" ->
         LET keys == IF byCode THEN AscendingCode(KeySet(v)) ELSE IndexKeysFirst(KeySet(v))
         IN  [kind |-> "obj", keys |-> keys,
              vals |-> [k \in 1..Len(keys) |-> Reordered(PropGet(v, keys[k]), byCode)]]
    [] OTHER -> v

Fallback(v) ==
  IF v = Undefined THEN <<>>
  ELSE IF v \in JsonValues THEN Serialize(stableSortKeys(v), 0)
  ELSE IF v.raw = "ok" THEN Serialize(v.json, 0)
  ELSE ObjectObject

C10_NeverRaises ==
  /\ status # "raised"
  /\ status = "rendered" => leftText = Fallback(left) /\ rightText = Fallback(right)

(***************************************************************************)
(* C19: the split merge looks back one step: a maximal run of k >= 1       *)
(* deletes directly followed by l >= 1 inserts becomes k - 1 del rows, one *)
(* change row pairing the last deleted with the first inserted line, and   *)
(* l - 1 add rows, in this order; context ops become context rows.         *)
(***************************************************************************)
\* an insert that directly follows a delete
FollowsDel(script, h) ==
  h > 1 /\ script[h].type = "add" /\ script[h - 1].type = "del"

\* the row that holds op h: every insert directly after a delete shares the
\* row of that delete
RowOf(script, h) == h - Cardinality({g \in 1..h : FollowsDel(script, g)})

\* ops[s .. s+k-1] are deletes, ops[s+k .. s+k+l-1] inserts, and the run
\* cannot be extended on either side
IsDelAddRun(script, s, k, l) ==
  /\ k >= 1 /\ l >= 1 /\ s + k + l - 1 <= Len(script)
  /\ \A h \in s..(s + k - 1) : script[h].type = "del"
  /\ \A h \in (s + k)..(s + k + l - 1) : script[h].type = "add"
  /\ s > 1 => script[s - 1].type # "del"
  /\ s + k + l <= Len(script) => script[s + k + l].type # "add"

RunRows(script, s, k, l) ==
  [t \in 1..(k + l - 1) |->
     IF t < k THEN [type |-> "del", left |-> script[s + t - 1].left, right |-> <<>>]
     ELSE IF t = k
     THEN [type |-> "change", left |-> script[s + k - 1].left,
           right |-> script[s + k].right]
     ELSE [type |-> "add", left |-> <<>>, right |-> script[s + t].right]]

C19_OneStepLookback ==
  RowsDone =>
    /\ \A s \in 1..Len(ops), k \in 1..Len(ops), l \in 1..Len(ops) :
         IsDelAddRun(ops, s, k, l) =>
           /\ RowOf(ops, s) + k + l - 2 <= Len(splitRows)
           /\ SubSeq(splitRows, RowOf(ops, s), RowOf(ops, s) + k + l - 2)
                = RunRows(ops, s, k, l)
    /\ \A h \in 1..Len(ops) :
         ops[h].type = "context" =>
           /\ RowOf(ops, h) <= Len(splitRows)
           /\ splitRows[RowOf(ops, h)]
                = [type |-> "context", left |-> ops[h].left, right |-> ops[h].right]

\* a run of two deletes and two inserts
C19_Witness ==
  /\ status = "rows"
  /\ \E s \in 1..Len(ops) : IsDelAddRun(ops, s, 2, 2)

(***************************************************************************)
(* C20: in a script of computeOps no insert is directly followed by a      *)
(* delete, so every maximal run of non-context rows has at most one change *)
(* row.                                                                    *)
(***************************************************************************)
C20_DeletesBeforeInserts ==
  /\ OpsDone =>
       \A h \in 1..(Len(ops) - 1) :
         ~ (ops[h].type = "add" /\ ops[h + 1].type = "del")
  /\ RowsDone =>
       \A g, h \in 1..Len(splitRows) :
         (g < h /\ splitRows[g].type = "change" /\ splitRows[h].type = "change") =>
           \E c \in (g + 1)..(h - 1) : splitRows[c].type = "context"

\* inserts chosen by the walk itself (a context op follows them), after a delete
C20_Witness ==
  /\ status = "rows"
  /\ \E h \in 1..(Len(ops) - 2) :
       /\ ops[h].type = "del"
       /\ ops[h + 1].type = "add"
       /\ ops[h + 2].type = "context"
  /\ CountType(splitRows, "change") = 1

(***************************************************************************)
(* JSON.parse, for texts over the characters used below: whitespace, the   *)
(* literals null, true and false, unsigned integers, strings with the      *)
(* escapes \" \\ \/ and \n, arrays and objects.  A parse returns whether   *)
(* it succeeded, the value, and the position after it.                     *)
(***************************************************************************)
Bool(b) == [kind |-> "bool", v |-> b]

Failed == [ok |-> FALSE, val |-> Undefined, next |-> 0]
Parsed(v, n) == [ok |-> TRUE, val |-> v, next |-> n]

IsWs(c) == c \in {" ", NL}

RECURSIVE SkipWs(_, _)
SkipWs(s, i) == IF i <= Len(s) /\ IsWs(s[i]) THEN SkipWs(s, i + 1) ELSE i

StartsWith(s, i, w) ==
  /\ i + Len(w) - 1 <= Len(s)
  /\ SubSeq(s, i, i + Len(w) - 1) = w

ParseWord(s, i, w, v) ==
  IF StartsWith(s, i, w) THEN Parsed(v, i + Len(w)) ELSE Failed

RECURSIVE ParseDigits(_, _, _)
ParseDigits(s, i, acc) ==
  IF i <= Len(s) /\ IsDigit(s[i])
  THEN ParseDigits(s, i + 1, acc * 10 + DigitVal(s[i]))
  ELSE Parsed(Num(acc), i)

\* a number starting with 0 is the number 0: "01" leaves a 1 behind
ParseNumber(s, i) ==
  IF s[i] = "0" THEN Parsed(Num(0), i + 1) ELSE ParseDigits(s, i, 0)

\* the characters of a string, from the one after the opening quote
RECURSIVE ParseChars(_, _, _)
ParseChars(s, i, acc) ==
  IF i > Len(s) THEN Failed
  ELSE IF s[i] = "\"" THEN Parsed(Str(acc), i + 1)
  ELSE IF s[i] = "\\"
  THEN IF i + 1 > Len(s) THEN Failed
       ELSE IF s[i + 1] \in {"\"", "\\", "/"}
       THEN ParseChars(s, i + 2, Append(acc, s[i + 1]))
       ELSE IF s[i + 1] = "n" THEN ParseChars(s, i + 2, Append(acc, NL))
       ELSE Failed
  ELSE IF s[i] = NL THEN Failed
  ELSE ParseChars(s, i + 1, Append(acc, s[i]))

RECURSIVE ParseValue(_, _)

\* the elements of an array, from the first one
RECURSIVE ParseElements(_, _, _)
ParseElements(s, i, acc) ==
  LET r == ParseValue(s, i)
      k == SkipWs(s, r.next)
  IN  IF ~ r.ok \/ k > Len(s) THEN Failed
      ELSE IF s[k] = "," THEN ParseElements(s, SkipWs(s, k + 1), Append(acc, r.val))
      ELSE IF s[k] = "]" THEN Parsed(Arr(Append(acc, r.val)), k + 1)
      ELSE Failed

\* the members of an object, from the first key
RECURSIVE ParseMembers(_, _, _)
ParseMembers(s, i, obj) ==
  IF i > Len(s) \/ s[i] # "\"" THEN Failed
  ELSE LET key == ParseChars(s, i + 1, <<>>)
           colon == SkipWs(s, key.next)
       IN  IF ~ key.ok \/ colon > Len(s) \/ s[colon] # ":" THEN Failed
           ELSE LET r == ParseValue(s, SkipWs(s, colon + 1))
                    k == SkipWs(s, r.next)
                IN  IF ~ r.ok \/ k > Len(s) THEN Failed
                    ELSE IF s[k] = ","
                    THEN ParseMembers(s, SkipWs(s, k + 1), PropSet(obj, key.val.v, r.val))
                    ELSE IF s[k] = "}"
                    THEN Parsed(PropSet(obj, key.val.v, r.val), k + 1)
                    ELSE Failed

ParseValue(s, i) ==
  IF i > Len(s) THEN Failed
  ELSE IF s[i] = "n" THEN ParseWord(s, i, <<"n", "u", "l", "l">>, Null)
  ELSE IF s[i] = "t" THEN ParseWord(s, i, <<"t", "r", "u", "e">>, Bool(TRUE))
  ELSE IF s[i] = "f" THEN ParseWord(s, i, <<"f", "a", "l", "s", "e">>, Bool(FALSE))
  ELSE IF IsDigit(s[i]) THEN ParseNumber(s, i)
  ELSE IF s[i] = "\"" THEN ParseChars(s, i + 1, <<>>)
  ELSE IF s[i] = "["
  THEN LET k == SkipWs(s, i + 1)
       IN  IF k <= Len(s) /\ s[k] = "]" THEN Parsed(Arr(<<>>), k + 1)
           ELSE ParseElements(s, k, <<>>)
  ELSE IF s[i] = "{"
  THEN LET k == SkipWs(s, i + 1)
       IN  IF k <= Len(s) /\ s[k] = "}" THEN Parsed(EmptyObj, k + 1)
           ELSE ParseMembers(s, k, EmptyObj)
  ELSE Failed

\* JSON.parse(text): the whole text is one value
JSONparse(s) ==
  LET r == ParseValue(s, SkipWs(s, 1))
  IN  IF r.ok /\ SkipWs(s, r.next) > Len(s) THEN r ELSE Failed

(***************************************************************************)
(* JsonView and JsonNode.  A JsonNode is identified by the keys on the way *)
(* from the root to it: its React key is the path string made of them.     *)
(***************************************************************************)
\* the parse applied to the result once more
tryParseTwice(value) ==
  IF value.kind = "str"
  THEN LET r == JSONparse(value.v)
       IN  IF ~ r.ok THEN value
           ELSE IF r.val.kind = "str"
           THEN (LET q == JSONparse(r.val.v) IN IF q.ok THEN q.val ELSE r.val)
           ELSE r.val
  ELSE value

tryParse(value) ==
  IF value.kind = "str"
  THEN LET r == JSONparse(value.v) IN IF r.ok THEN r.val ELSE value
  ELSE value

isArray(v) == v.kind = "arr"
isRecord(v) == v.kind = "obj"
isContainer(v) == isArray(v) \/ isRecord(v)

\* value.map((v, i) => [String(i), v]), Object.entries(value), or []
Entries(v) ==
  IF isArray(v) THEN [k \in 1..Len(v.items) |-> <<Digits(k - 1), v.items[k]>>]
  ELSE IF isRecord(v) THEN [k \in 1..Len(v.keys) |-> <<v.keys[k], v.vals[k]>>]
  ELSE <<>>

hasChildren(v) == Len(Entries(v)) > 0

\* the paths of the JsonNodes that a JsonNode of this value renders below
\* itself, itself included
RECURSIVE NodePaths(_)
NodePaths(v) ==
  {<<>>} \cup UNION {{<<Entries(v)[k][1]>> \o q : q \in NodePaths(Entries(v)[k][2])} :
                      k \in 1..Len(Entries(v))}

RECURSIVE ValueAt(_, _)
ValueAt(v, p) ==
  IF p = <<>> THEN v
  ELSE LET k == CHOOSE k \in 1..Len(Entries(v)) : Entries(v)[k][1] = Head(p)
       IN  ValueAt(Entries(v)[k][2], Tail(p))

\* `${path}.${k}` from "$"
RECURSIVE PathString(_)
PathString(p) ==
  IF p = <<>> THEN <<"$">>
  ELSE PathString(SubSeq(p, 1, Len(p) - 1)) \o <<".">> \o p[Len(p)]

\* name={isArray ? undefined : k}
NameAlwaysKey(parentIsArray, k) == Str(k)
Name(parentIsArray, k) == IF parentIsArray THEN Undefined ELSE Str(k)

NameAt(v, p) ==
  IF p = <<>> THEN Undefined
  ELSE Name(isArray(ValueAt(v, SubSeq(p, 1, Len(p) - 1))), p[Len(p)])

\* name !== undefined ? `${name}: ` : ""
Label(nm) == IF nm = Undefined THEN <<>> ELSE nm.v \o <<":", " ">>

\* `Array(${n})` or `Object(${n})`
Header(v) ==
  (IF isArray(v) THEN <<"A", "r", "r", "a", "y">> ELSE <<"O", "b", "j", "e", "c", "t">>)
  \o <<"(">> \o Digits(Len(Entries(v))) \o <<")">>

\* String(value) of a value that is no string
StringOf(v) ==
  CASE v.kind = "null" -> <<"n", "u", "l", "l">>
    [] v.kind = "num" -> Digits(v.v)
    [] v.kind = "bool" ->
         IF v.v THEN <<"t", "r", "u", "e">> ELSE <<"f", "a", "l", "s", "e">>
    [] v.kind = "undefined" -> <<"u", "n", "d", "e", "f", "i", "n", "e", "d">>

\* typeof value === "string" ? JSON.stringify(value) : String(value)
LeafTextUnquoted(v) == IF v.kind = "str" THEN v.v ELSE StringOf(v)
LeafText(v) == IF v.kind = "str" THEN Quoted(v.v) ELSE StringOf(v)

\* what a JsonNode returns: a leaf line, a <details> with its children, or
\* the header line of an empty container
JsonNode(nm, v, isCollapsed) ==
  IF ~ isContainer(v)
  THEN [shape |-> "leaf", label |-> Label(nm), text |-> LeafText(v),
        open |-> FALSE, children |-> <<>>]
  ELSE IF hasChildren(v)
  THEN [shape |-> "details", label |-> Label(nm), text |-> Header(v),
        open |-> ~ isCollapsed,
        children |-> [k \in 1..Len(Entries(v)) |-> Entries(v)[k][1]]]
  ELSE [shape |-> "empty", label |-> Label(nm), text |-> Header(v),
        open |-> FALSE, children |-> <<>>]

\* useState(isContainer && depth >= defaultCollapsedDepth), on mount
InitialCollapsedBelow(v, depth, dcd) == isContainer(v) /\ depth > dcd
InitialCollapsed(v, depth, dcd) == isContainer(v) /\ depth >= dcd

\* the state of the JsonNode at p after a render: a mounted node keeps its
\* state, a node that mounts takes the initial state
NodeFlagReset(old, p, v, dcd) == InitialCollapsed(v, Len(p), dcd)
NodeFlag(old, p, v, dcd) ==
  IF p \in DOMAIN old THEN old[p] ELSE InitialCollapsed(v, Len(p), dcd)

\* the nodes that are mounted after a render of this value: the nodes the
\* render returns; the other nodes are unmounted and their state is gone
MountedKeepsAll(old, v) == NodePaths(v) \cup DOMAIN old
Mounted(old, v) == NodePaths(v)

Flags(old, v, dcd) ==
  [p \in Mounted(old, v) |->
     NodeFlag(old, p, IF p \in NodePaths(v) THEN ValueAt(v, p) ELSE Undefined, dcd)]

Rendered(v, flags) ==
  [p \in NodePaths(v) |-> JsonNode(NameAt(v, p), ValueAt(v, p), flags[p])]

Restrict(f, S) == [p \in DOMAIN f \cap S |-> f[p]]

\* for every mounted node that was not toggled since it mounted, what the
\* default policy said in the render in which it mounted
MountRecords(old, v, dcd, toggled) ==
  [p \in NodePaths(v) \ toggled |->
     IF p \in DOMAIN old THEN old[p] ELSE InitialCollapsed(ValueAt(v, p), Len(p), dcd)]
Put(f, p, x) == [q \in DOMAIN f \cup {p} |-> IF q = p THEN x ELSE f[q]]

(***************************************************************************)
(* The values given to JsonView.                                           *)
(***************************************************************************)
\* longest string over StrChars given to JsonView
MaxStrLen == 3

\* largest defaultCollapsedDepth
MaxDefaultDepth == 2

StrChars == {"1", "a", "\"", "[", "]", "{", "}"}

\* longer texts: literals, whitespace, a leading zero, an escape, an object
\* with a member, a doubly encoded array
ExtraTexts ==
  { <<"n", "u", "l", "l">>, <<"t", "r", "u", "e">>, <<"f", "a", "l", "s", "e">>,
    <<"n", "u", "l">>, <<" ", "1", NL>>, <<"0", "1">>, <<"1", "0">>,
    <<"\"", "\\", "n", "\"">>, <<"\"", "\\", "a", "\"">>,
    <<"[", "1", ",", " ", "\"", "a", "\"", "]">>, <<"[", "1", ",", "]">>,
    <<"{", "\"", "a", "\"", ":", "1", "}">>,
    <<"{", "\"", "a", "\"", ":", "1", ",", "\"", "0", "\"", ":", "[", "]", "}">>,
    <<"{", "\"", "a", "\"", "1", "}">>,
    <<"\"", "\\", "\"", "1", "\\", "\"", "\"">> }

StringValues == {Str(t) : t \in SeqsUpTo(StrChars, MaxStrLen) \cup ExtraTexts}

\* {"a":{"b":1}}
Example == MkObj(<<<<<<"a">>, MkObj(<<<<<<"b">>, Num(1)>>>>)>>>>)

\* containers with strings, booleans and null in them
Mixed ==
  { Example,
    Arr(<<Str(<<"1">>), Bool(TRUE), Null>>),
    Arr(<<Str(<<"[", "1", "]">>), Arr(<<>>), EmptyObj>>),
    MkObj(<<<<<<"a">>, Str(<<"{", "}">>)>>, <<<<"0">>, Arr(<<Bool(FALSE)>>)>>>>),
    Arr(<<Arr(<<Arr(<<Num(1)>>)>>)>>) }

\* doubly encoded payloads: the JSON texts of the JSON values
Encoded == {Str(Serialize(v, 0)) : v \in JsonValues}

ViewValues ==
  StringValues \cup Encoded \cup JsonValues
  \cup {Bool(TRUE), Bool(FALSE), Num(0)} \cup Mixed

DefaultDepths == 0..MaxDefaultDepth

\* the values of a JsonView that is rendered again and again
TreeValues ==
  { Example,
    MkObj(<<<<<<"a">>, Num(1)>>>>),
    EmptyObj,
    Arr(<<Arr(<<Num(1)>>)>>),
    Arr(<<Num(1)>>),
    Str(<<"[", "[", "1", "]", "]">>),
    Num(1) }

(***************************************************************************)
(* JsonView on the screen.                                                 *)
(***************************************************************************)
\* the first render of a JsonView
MountView ==
  /\ viewStatus = "unmounted"
  /\ data' = tryParse(viewValue)
  /\ collapsed' = Flags(NoFlags, data', defaultCollapsedDepth)
  /\ nodes' = Rendered(data', collapsed')
  /\ viewStatus' = "mounted"
  /\ chosen' = NoFlags
  /\ chosenEver' = NoFlags
  /\ mountedWith' = MountRecords(NoFlags, data', defaultCollapsedDepth, {})
  /\ UNCHANGED <<viewValue, defaultCollapsedDepth, diffVars, pageVars, dndVars, replayVars>>

\* the parent renders the mounted JsonView again, with props v and d
RerenderView(v, d) ==
  /\ viewStatus = "mounted"
  /\ viewValue' = v
  /\ defaultCollapsedDepth' = d
  /\ data' = tryParse(v)
  /\ collapsed' = Flags(collapsed, data', d)
  /\ nodes' = Rendered(data', collapsed')
  /\ chosen' = Restrict(chosen, NodePaths(data'))
  /\ mountedWith' = MountRecords(mountedWith, data', d, DOMAIN chosen')
  /\ UNCHANGED <<viewStatus, chosenEver, diffVars, pageVars, dndVars, replayVars>>

Visible(p) == \A k \in 0..(Len(p) - 1) : nodes[SubSeq(p, 1, k)].open

\* the user clicks the summary of the <details> at p: the browser flips its
\* open attribute and onToggle stores the opposite in the state of the node
ToggleNode(p) ==
  /\ viewStatus = "mounted"
  /\ p \in DOMAIN nodes
  /\ nodes[p].shape = "details"
  /\ Visible(p)
  /\ LET nowOpen == ~ nodes[p].open
     IN  collapsed' = [collapsed EXCEPT ![p] = ~ nowOpen]
  /\ nodes' = Rendered(data, collapsed')
  /\ chosen' = Put(chosen, p, collapsed'[p])
  /\ chosenEver' = Put(chosenEver, p, collapsed'[p])
  /\ mountedWith' = Restrict(mountedWith, DOMAIN mountedWith \ {p})
  /\ UNCHANGED <<viewValue, defaultCollapsedDepth, data, viewStatus,
                 diffVars, pageVars, dndVars, replayVars>>

\* the page leaves the screen; the props are those of the next mount
UnmountView ==
  /\ viewStatus = "mounted"
  /\ viewStatus' = "unmounted"
  /\ viewValue' \in TreeValues
  /\ defaultCollapsedDepth' \in DefaultDepths
  /\ data' = Undefined
  /\ collapsed' = NoFlags
  /\ nodes' = NoNodes
  /\ chosen' = NoFlags
  /\ chosenEver' = NoFlags
  /\ mountedWith' = NoFlags
  /\ UNCHANGED <<diffVars, pageVars, dndVars, replayVars>>

InitViewWith(values) ==
  /\ viewStatus = "unmounted"
  /\ viewValue \in values
  /\ defaultCollapsedDepth \in DefaultDepths
  /\ data = Undefined
  /\ collapsed = NoFlags
  /\ nodes = NoNodes
  /\ chosen = NoFlags
  /\ chosenEver = NoFlags
  /\ mountedWith = NoFlags
  /\ DiffIdle
  /\ PagesIdle
  /\ DndIdle
  /\ ReplayIdle

\* one render of every value
InitView == InitViewWith(ViewValues)

NextView == MountView

SpecView == InitView /\ [][NextView]_vars

\* a JsonView that is rendered again, toggled and unmounted
InitTree == InitViewWith(TreeValues)

Rerenders == \E v \in TreeValues, d \in DefaultDepths : RerenderView(v, d)

Toggles == \E p \in DOMAIN nodes : ToggleNode(p)

NextTree == MountView \/ Rerenders \/ Toggles \/ UnmountView

SpecTree == InitTree /\ [][NextTree]_vars

(***************************************************************************)
(* C11: on the first mount a container at depth d starts collapsed exactly *)
(* when d >= defaultCollapsedDepth: with depth 1 and {"a":{"b":1}} the     *)
(* root is open and the child a is closed; with depth 0 every container is *)
(* closed, the root included.                                              *)
(***************************************************************************)
C11_InitialPolicy ==
  viewStatus = "mounted" =>
    /\ \A p \in NodePaths(data) :
         /\ p \in DOMAIN collapsed
         /\ isContainer(ValueAt(data, p)) =>
              (collapsed[p] <=> Len(p) >= defaultCollapsedDepth)
         /\ nodes[p].shape = "details" => (nodes[p].open <=> ~ collapsed[p])
    /\ (viewValue = Example /\ defaultCollapsedDepth = 1) =>
         /\ nodes[<<>>].open
         /\ ~ nodes[<<<<"a">>>>].open
    /\ defaultCollapsedDepth = 0 =>
         \A p \in DOMAIN nodes : isContainer(ValueAt(data, p)) => collapsed[p]

C11_Witness ==
  /\ viewStatus = "mounted"
  /\ viewValue = Example
  /\ defaultCollapsedDepth = 1
  /\ ~ collapsed[<<>>]
  /\ collapsed[<<<<"a">>>>]

(***************************************************************************)
(* C12: the flag of a node is taken from the default policy only when the  *)
(* node mounts.  After the user has toggled the node at p, renders in      *)
(* which p is still present (same value, another value at p, another       *)
(* defaultCollapsedDepth) leave the flag of p at what the user chose, until *)
(* the next toggle at p.  chosen records, for every path toggled since it  *)
(* mounted, the flag the last toggle at it stored.                         *)
(***************************************************************************)
C12_UserChoiceKept ==
  viewStatus = "mounted" =>
    \A p \in DOMAIN chosen :
      /\ p \in DOMAIN collapsed
      /\ collapsed[p] = chosen[p]

\* the user collapsed a; a later render made a a leaf under another default
\* depth, and the flag of a is still the one the user chose
C12_Witness ==
  /\ viewStatus = "mounted"
  /\ data = MkObj(<<<<<<"a">>, Num(1)>>>>)
  /\ defaultCollapsedDepth = 2
  /\ <<<<"a">>>> \in DOMAIN chosen
  /\ chosen[<<<<"a">>>>]
  /\ collapsed[<<<<"a">>>>]

(***************************************************************************)
(* C13, as claimed: a flag lives until the JsonView is unmounted, so a     *)
(* path that was absent from one render and is present again still has the *)
(* flag the user had set.  chosenEver records, for every path toggled      *)
(* since the JsonView mounted, the flag the last toggle at it stored.      *)
(***************************************************************************)
C13_AsClaimed ==
  viewStatus = "mounted" =>
    \A p \in DOMAIN chosenEver :
      p \in NodePaths(data) => (p \in DOMAIN collapsed /\ collapsed[p] = chosenEver[p])

(***************************************************************************)
(* C13: a flag lives from the render in which its node mounts until a      *)
(* render whose value has no such path, or until the JsonView is           *)
(* unmounted.  Every step leaves a mounted JsonView with exactly the paths *)
(* of its value; a path that stays keeps its flag unless the step is a     *)
(* toggle at this path; a path that was not there before the step, whether *)
(* new or back after an absence, has the flag of the default policy under  *)
(* the defaultCollapsedDepth of this render.                               *)
(***************************************************************************)
ToggledAt(p) ==
  /\ data' = data
  /\ p \in DOMAIN chosen'
  /\ chosen'[p] = collapsed'[p]
  /\ \A q \in DOMAIN collapsed' \ {p} : collapsed'[q] = collapsed[q]

C13_FlagLifetime ==
  [][viewStatus' = "mounted" =>
       /\ DOMAIN collapsed' = NodePaths(data')
       /\ \A p \in DOMAIN collapsed' :
            IF viewStatus = "mounted" /\ p \in DOMAIN collapsed
            THEN collapsed'[p] = collapsed[p] \/ ToggledAt(p)
            ELSE collapsed'[p] <=>
                   (/\ isContainer(ValueAt(data', p))
                    /\ Len(p) >= defaultCollapsedDepth')]_vars

\* the user opened a, a left the value and came back: a is collapsed again
C13_Witness ==
  /\ viewStatus = "mounted"
  /\ data = Example
  /\ defaultCollapsedDepth = 0
  /\ <<<<"a">>>> \in DOMAIN chosenEver
  /\ ~ chosenEver[<<<<"a">>>>]
  /\ <<<<"a">>>> \notin DOMAIN chosen
  /\ collapsed[<<<<"a">>>>]

(***************************************************************************)
(* Reading a rendered tree back: a leaf is the JSON.parse of its literal,  *)
(* an array has its children in their order, an object has one member for  *)
(* every child, named by the key label of the child.                       *)
(***************************************************************************)
Unparsable == [kind |-> "unparsable"]

KeyOfLabel(label) == SubSeq(label, 1, Len(label) - 2)

RECURSIVE Reparse(_, _)

RECURSIVE ReparseMembers(_, _, _, _)
ReparseMembers(tree, p, k, obj) ==
  IF k > Len(tree[p].children) THEN obj
  ELSE LET q == Append(p, tree[p].children[k])
       IN  ReparseMembers(tree, p, k + 1,
                          PropSet(obj, KeyOfLabel(tree[q].label), Reparse(tree, q)))

Reparse(tree, p) ==
  IF tree[p].shape = "leaf"
  THEN LET r == JSONparse(tree[p].text) IN IF r.ok THEN r.val ELSE Unparsable
  ELSE IF Head(tree[p].text) = "A"
  THEN Arr([k \in 1..Len(tree[p].children) |->
              Reparse(tree, Append(p, tree[p].children[k]))])
  ELSE ReparseMembers(tree, p, 1, EmptyObj)

(***************************************************************************)
(* C14, as claimed: for every JSON value given to JsonView, strings        *)
(* included, re-parsing the rendered leaf literals at their paths gives a  *)
(* value equal to the one given.                                           *)
(***************************************************************************)
C14_AsClaimed ==
  viewStatus = "mounted" => Reparse(nodes, <<>>) = viewValue

(***************************************************************************)
(* C14: re-parsing the rendered leaf literals at their paths gives the     *)
(* value given to JsonView, unless that value is a string that holds a     *)
(* JSON text: then it gives the value this text parses to.                 *)
(***************************************************************************)
C14_RoundTrip ==
  viewStatus = "mounted" =>
    Reparse(nodes, <<>>) =
      IF viewValue.kind = "str" /\ JSONparse(viewValue.v).ok
      THEN JSONparse(viewValue.v).val
      ELSE viewValue

\* the string "[1]" is rendered as an array with the leaf 1
C14_Witness ==
  /\ viewStatus = "mounted"
  /\ viewValue = Str(<<"[", "1", "]">>)
  /\ nodes[<<>>].shape = "details"
  /\ nodes[<<<<"0">>>>].text = <<"1">>
  /\ Reparse(nodes, <<>>) = Arr(<<Num(1)>>)

(***************************************************************************)
(* C15: JsonView parses the value it is given exactly when it is a string  *)
(* that holds a JSON text, and renders what the parse returned; a string   *)
(* that does not parse is one JSON-quoted string leaf; any other value is  *)
(* rendered as it is.  The parse is applied once and at the top only:      *)
(* every string in the value that is rendered, nested or returned by the   *)
(* parse, is a JSON-quoted string leaf.  The JSON text of a JSON value is  *)
(* a string that holds JSON and parses to this value.                      *)
(***************************************************************************)
Front(p) == SubSeq(p, 1, Len(p) - 1)
Last(p) == p[Len(p)]

HoldsJSON(v) == v.kind = "str" /\ JSONparse(v.v).ok

C15_ParseOnce ==
  viewStatus = "mounted" =>
    /\ HoldsJSON(viewValue) => data = JSONparse(viewValue.v).val
    /\ ~ HoldsJSON(viewValue) => data = viewValue
    /\ (viewValue.kind = "str" /\ ~ HoldsJSON(viewValue)) =>
         /\ DOMAIN nodes = {<<>>}
         /\ nodes[<<>>].shape = "leaf"
         /\ nodes[<<>>].text = Quoted(viewValue.v)
    /\ \A v \in JsonValues : viewValue = Str(Serialize(v, 0)) => data = v
    /\ DOMAIN nodes = NodePaths(data)
    /\ \A p \in NodePaths(data) :
         /\ ValueAt(data, p).kind = "str" =>
              /\ nodes[p].shape = "leaf"
              /\ nodes[p].text = Quoted(ValueAt(data, p).v)
         /\ isContainer(ValueAt(data, p)) <=> nodes[p].shape # "leaf"

\* the JSON text of the string "1" is rendered as the string leaf "1", not
\* as the number 1
C15_Witness ==
  /\ viewStatus = "mounted"
  /\ viewValue = Str(<<"\"", "1", "\"">>)
  /\ data = Str(<<"1">>)
  /\ HoldsJSON(data)
  /\ nodes[<<>>].text = <<"\"", "1", "\"">>

(***************************************************************************)
(* C16, as claimed: every child of an array carries its index 0, 1, 2, ... *)
(* as its key label and every child of an object carries its key name.     *)
(***************************************************************************)
C16_AsClaimed ==
  viewStatus = "mounted" =>
    \A p \in DOMAIN nodes \ {<<>>} : nodes[p].label = Last(p) \o <<":", " ">>

(***************************************************************************)
(* C16: every child of an object carries its key name as its key label;    *)
(* a child of an array carries no key label: the children of an array are  *)
(* rendered in the order of their indices 0, 1, 2, ..., and the index is   *)
(* part of the path only.                                                  *)
(***************************************************************************)
C16_KeyLabels ==
  viewStatus = "mounted" =>
    /\ nodes[<<>>].label = <<>>
    /\ \A p \in DOMAIN nodes \ {<<>>} :
         LET parent == ValueAt(data, Front(p))
         IN  IF isArray(parent)
             THEN /\ nodes[p].label = <<>>
                  /\ \E k \in 1..Len(parent.items) :
                       /\ Last(p) = Digits(k - 1)
                       /\ nodes[Front(p)].children[k] = Last(p)
                       /\ ValueAt(data, p) = parent.items[k]
             ELSE /\ nodes[p].label = Last(p) \o <<":", " ">>
                  /\ ValueAt(data, p) = PropGet(parent, Last(p))

\* the second element of [1, 2] is the leaf 2 without a label
C16_Witness ==
  /\ viewStatus = "mounted"
  /\ data = Arr(<<Num(1), Num(2)>>)
  /\ nodes[<<<<"1">>>>].label = <<>>
  /\ nodes[<<<<"1">>>>].text = <<"2">>

(***************************************************************************)
(* The pages that show spans: the diff page and the dialog of              *)
(* RunsDndCompare render a matched pair of spans, the run detail page      *)
(* renders one span.                                                       *)
(***************************************************************************)
SpanKinds == {"node", "llm"}

\* a field of attrs: absent, null, or an object
FieldValues == {Undefined, Null, AB}

Attrs ==
  [before_state : FieldValues, after_state : FieldValues,
   request : FieldValues, response : FieldValues]

MatchedPairs == [kind : SpanKinds, left : [attrs : Attrs], right : [attrs : Attrs]]

\* the left span of the pair, as the detail page of the left run gets it
LeftSpan(m) == [kind |-> m.kind, attrs |-> m.left.attrs]

\* m.kind === "node" ? before_state, after_state : request, response
FieldsOf(kind) ==
  IF kind = "node" THEN <<"before_state", "after_state">> ELSE <<"request", "response">>

\* <DiffView title=.. left=.. right=.. mode=.. /> and what it shows
DiffPanel(title, l, r, m) ==
  LET out == Render(l, r, m)
  IN  [view |-> "DiffView", title |-> title, left |-> l, right |-> r, mode |-> m,
       hasChanges |-> out.hasChanges, rows |-> Len(out.shown)]

\* a panel only for a field that one of the two spans has
FieldPanelsOmitAbsent(m, viewMode) ==
  LET fields == FieldsOf(m.kind)
      here == {k \in 1..2 : m.left.attrs[fields[k]] # Undefined
                            \/ m.right.attrs[fields[k]] # Undefined}
      panel(k) == DiffPanel(fields[k], m.left.attrs[fields[k]],
                            m.right.attrs[fields[k]], viewMode)
  IN  IF here = {} THEN <<>>
      ELSE IF here = {1, 2} THEN <<panel(1), panel(2)>>
      ELSE <<panel(CHOOSE k \in here : TRUE)>>

\* the two DiffViews of a matched pair
FieldPanels(m, viewMode) ==
  LET fields == FieldsOf(m.kind)
  IN  [k \in 1..2 |->
         DiffPanel(fields[k], m.left.attrs[fields[k]], m.right.attrs[fields[k]],
                   viewMode)]

\* the value counts as true in a condition
Truthy(v) ==
  /\ v.kind \notin {"undefined", "null"}
  /\ v.kind = "num" => v.v # 0
  /\ v.kind = "str" => v.v # <<>>
  /\ v.kind = "bool" => v.v

JsonPanel(title, v) == [view |-> "JsonView", title |-> title, value |-> v]

Shows(cond, panel) == IF cond THEN <<panel>> ELSE <<>>

\* the JsonViews of a span on the run detail page
DetailPanels(s) ==
  LET before == s.attrs.before_state
      after == s.attrs.after_state
      req == s.attrs.request
      res == s.attrs.response
      state == s.kind = "node" /\ (Truthy(before) \/ Truthy(after))
  IN  Shows(state /\ Truthy(before), JsonPanel("before", before))
      \o Shows(state /\ Truthy(after), JsonPanel("after", after))
      \o Shows(Truthy(req), JsonPanel("request", req))
      \o Shows(Truthy(res), JsonPanel("response", res))
      \o Shows(~ Truthy(req) /\ ~ Truthy(res) /\ ~ state, JsonPanel("attrs", s.attrs))

InitPages ==
  /\ matched \in MatchedPairs
  /\ span = LeftSpan(matched)
  /\ page = "none"
  /\ panels = <<>>
  /\ DiffIdle
  /\ TreeIdle
  /\ DndIdle
  /\ ReplayIdle

\* /runs/diff?left=..&right=..&mode=..
ShowDiffPage ==
  /\ page = "none"
  /\ \E viewMode \in Modes :
       panels' = FieldPanels(matched, viewMode)
  /\ page' = "diff"
  /\ UNCHANGED <<matched, span, diffVars, treeVars, dndVars, replayVars>>

\* the dialog of RunsDndCompare with a diff loaded; its DiffViews get no mode
ShowDialog ==
  /\ page = "none"
  /\ panels' = FieldPanels(matched, "split")
  /\ page' = "dialog"
  /\ UNCHANGED <<matched, span, diffVars, treeVars, dndVars, replayVars>>

\* /runs/[id]
ShowDetailPage ==
  /\ page = "none"
  /\ panels' = DetailPanels(span)
  /\ page' = "detail"
  /\ UNCHANGED <<matched, span, diffVars, treeVars, dndVars, replayVars>>

NextPages == ShowDiffPage \/ ShowDialog \/ ShowDetailPage

SpecPages == InitPages /\ [][NextPages]_vars

(***************************************************************************)
(* C17, as claimed: the panel of an absent field is omitted.  For a pair   *)
(* whose field is undefined on both sides the diff page and the dialog     *)
(* render no DiffView for this field, and on the run detail page a span    *)
(* with an absent field gets no panel for it.                              *)
(***************************************************************************)
Titles(ps) == {ps[k].title : k \in 1..Len(ps)}

AbsentBoth(m, f) == m.left.attrs[f] = Undefined /\ m.right.attrs[f] = Undefined

DetailTitle(f) ==
  CASE f = "before_state" -> "before"
    [] f = "after_state" -> "after"
    [] f = "request" -> "request"
    [] f = "response" -> "response"

C17_AsClaimed ==
  /\ page \in {"diff", "dialog"} =>
       \A k \in 1..2 :
         AbsentBoth(matched, FieldsOf(matched.kind)[k]) =>
           FieldsOf(matched.kind)[k] \notin Titles(panels)
  /\ page = "detail" =>
       \A f \in DOMAIN span.attrs :
         span.attrs[f] = Undefined => DetailTitle(f) \notin Titles(panels)

(***************************************************************************)
(* C17: on the run detail page a span with an absent field gets no panel   *)
(* for this field.  The diff page and the dialog render the two DiffViews  *)
(* of the kind of the pair whatever the fields are: for a field that is    *)
(* undefined on both sides the panel is there, with one empty row and "no  *)
(* changes".                                                               *)
(***************************************************************************)
C17_AbsentFields ==
  /\ page \in {"diff", "dialog"} =>
       /\ Len(panels) = 2
       /\ \A k \in 1..2 :
            LET f == FieldsOf(matched.kind)[k]
            IN  /\ panels[k].view = "DiffView"
                /\ panels[k].title = f
                /\ panels[k].left = matched.left.attrs[f]
                /\ panels[k].right = matched.right.attrs[f]
                /\ AbsentBoth(matched, f) =>
                     (~ panels[k].hasChanges /\ panels[k].rows = 1)
  /\ page = "detail" =>
       \A f \in DOMAIN span.attrs :
         span.attrs[f] = Undefined => DetailTitle(f) \notin Titles(panels)

\* a pair of node spans without before_state on either side, on the diff page
C17_Witness ==
  /\ page = "diff"
  /\ matched.kind = "node"
  /\ AbsentBoth(matched, "before_state")
  /\ panels[1].title = "before_state"
  /\ ~ panels[1].hasChanges

(***************************************************************************)
(* RunsDndCompare: two drop zones, the buttons Diff and Clear, and the     *)
(* dialog that shows the diff.  issued lists the requests of doDiff in the *)
(* order of the clicks, outcome tells for each of them whether its         *)
(* response is still on the way, has arrived, or was a failure; cleared    *)
(* tells that Clear has run and Diff was not pressed since.                *)
(***************************************************************************)
\* most requests of doDiff in one behaviour
MaxRequests == 2

RunIds == {Str(<<"r", "1">>), Str(<<"r", "2">>), Str(<<"r", "3">>)}

\* what the backend answers to /api/runs/diff?left=l&right=r
fetchDiff(l, r) == [kind |-> "diff", left_run |-> l, right_run |-> r]

\* !left || !right || left === right
DiffDisabled == dndLeft = Null \/ dndRight = Null \/ dndLeft = dndRight

Pending == {k \in 1..Len(issued) : outcome[k] = "pending"}

InitDnd ==
  /\ dndLeft = Null
  /\ dndRight = Null
  /\ open = FALSE
  /\ diff = Null
  /\ issued = <<>>
  /\ outcome = <<>>
  /\ cleared = FALSE
  /\ DiffIdle
  /\ TreeIdle
  /\ PagesIdle
  /\ ReplayIdle

\* a run is dropped on a zone; the open dialog covers the zones and buttons
onDropZone(side, id) ==
  /\ ~ open
  /\ IF side = "left"
     THEN dndLeft' = id /\ UNCHANGED dndRight
     ELSE dndRight' = id /\ UNCHANGED dndLeft
  /\ UNCHANGED <<open, diff, issued, outcome, cleared, diffVars, treeVars, pageVars, replayVars>>

Drops == \E side \in {"left", "right"}, id \in RunIds : onDropZone(side, id)

clear ==
  /\ ~ open
  /\ dndLeft' = Null
  /\ dndRight' = Null
  /\ diff' = Null
  /\ cleared' = TRUE
  /\ UNCHANGED <<open, issued, outcome, diffVars, treeVars, pageVars, replayVars>>

\* a click on Diff: doDiff runs up to its await
doDiff ==
  /\ ~ open
  /\ ~ DiffDisabled
  /\ Len(issued) < MaxRequests
  /\ issued' = Append(issued, [left |-> dndLeft, right |-> dndRight])
  /\ outcome' = Append(outcome, "pending")
  /\ cleared' = FALSE
  /\ UNCHANGED <<dndLeft, dndRight, open, diff, diffVars, treeVars, pageVars, replayVars>>

\* the response of request k arrives: doDiff goes on after its await
Resolve(k) ==
  /\ outcome[k] = "pending"
  /\ outcome' = [outcome EXCEPT ![k] = "ok"]
  /\ diff' = fetchDiff(issued[k].left, issued[k].right)
  /\ open' = TRUE
  /\ UNCHANGED <<dndLeft, dndRight, issued, cleared, diffVars, treeVars, pageVars, replayVars>>

\* the retrieval of request k fails: fetchDiff throws and doDiff ends
Reject(k) ==
  /\ outcome[k] = "pending"
  /\ outcome' = [outcome EXCEPT ![k] = "failed"]
  /\ UNCHANGED <<dndLeft, dndRight, open, diff, issued, cleared, diffVars, treeVars,
                 pageVars, replayVars>>

Resolves == \E k \in Pending : Resolve(k)

Rejects == \E k \in Pending : Reject(k)

\* onOpenChange(false)
CloseDialog ==
  /\ open
  /\ open' = FALSE
  /\ UNCHANGED <<dndLeft, dndRight, diff, issued, outcome, cleared, diffVars, treeVars,
                 pageVars, replayVars>>

NextDnd == Drops \/ clear \/ doDiff \/ Resolves \/ Rejects \/ CloseDialog

SpecDnd == InitDnd /\ [][NextDnd]_vars

(***************************************************************************)
(* C18: the diff retrievals of RunsDndCompare are sequenced: the response  *)
(* of a request that is not the latest issued is discarded, so once every  *)
(* response has arrived the stored diff is the response of the request     *)
(* issued last, in whatever order the responses arrived.                   *)
(***************************************************************************)
C18_LatestResponseStored ==
  (/\ issued # <<>>
   /\ Pending = {}
   /\ outcome[Len(issued)] = "ok"
   /\ diff # Null) =>
    diff = fetchDiff(issued[Len(issued)].left, issued[Len(issued)].right)

(***************************************************************************)
(* C21: the split projection loses and reorders no line: the left texts of *)
(* the context, del and change rows, top to bottom, are the lines of the   *)
(* left text; the right texts of the context, add and change rows are the  *)
(* lines of the right text; there are as many rows as ops minus the change *)
(* rows.                                                                   *)
(***************************************************************************)
RECURSIVE RowTexts(_, _, _)
RowTexts(rows, types, side) ==
  IF rows = <<>> THEN <<>>
  ELSE (IF Head(rows).type \in types THEN <<Head(rows)[side]>> ELSE <<>>)
       \o RowTexts(Tail(rows), types, side)

C21_NoLineLost ==
  RowsDone =>
    /\ RowTexts(splitRows, {"context", "del", "change"}, "left") = A
    /\ RowTexts(splitRows, {"context", "add", "change"}, "right") = B
    /\ Len(splitRows) = Len(ops) - CountType(splitRows, "change")

\* a context row, a change row and a del row: one row less than there are ops
C21_Witness ==
  /\ status = "rows"
  /\ \A t \in {"context", "del", "change"} : CountType(splitRows, t) >= 1
  /\ Len(splitRows) = Len(ops) - 1

(***************************************************************************)
(* C22, as claimed: a container that the user has never toggled follows    *)
(* the default policy in every render: after any re-renders it is          *)
(* collapsed exactly when its depth is at least the current                *)
(* defaultCollapsedDepth.                                                  *)
(***************************************************************************)
C22_AsClaimed ==
  viewStatus = "mounted" =>
    \A p \in DOMAIN nodes :
      (isContainer(ValueAt(data, p)) /\ p \notin DOMAIN chosenEver) =>
        (collapsed[p] <=> Len(p) >= defaultCollapsedDepth)

(***************************************************************************)
(* C22: a node that the user has not toggled since it mounted has the flag *)
(* the default policy gave it when it mounted: it is collapsed exactly     *)
(* when its value was a container in that render and its depth is at least *)
(* the defaultCollapsedDepth of that render.  Later renders do not apply   *)
(* the policy again.  mountedWith records what the policy said then.       *)
(***************************************************************************)
C22_PolicyOfMount ==
  viewStatus = "mounted" =>
    \A p \in DOMAIN nodes :
      p \notin DOMAIN chosen =>
        /\ p \in DOMAIN mountedWith
        /\ collapsed[p] <=> mountedWith[p]

\* the root mounted collapsed under depth 0 and was never toggled; under
\* depth 2 it is still collapsed
C22_Witness ==
  /\ viewStatus = "mounted"
  /\ data = Example
  /\ defaultCollapsedDepth = 2
  /\ <<>> \notin DOMAIN chosenEver
  /\ collapsed[<<>>]
  /\ ~ nodes[<<>>].open

(***************************************************************************)
(* C23: Clear resets the comparison for good: from the moment clear has    *)
(* run until Diff is pressed again, diff is null and the dialog is closed, *)
(* also when the response of a request issued before the Clear arrives     *)
(* after it.                                                               *)
(***************************************************************************)
C23_ClearForGood == cleared => (diff = Null /\ ~ open)

(***************************************************************************)
(* ReplayButton.  A click starts onClick, which runs up to its first await *)
(* and goes on when the request settles: with a response that is OK and    *)
(* has a JSON body, with a response that is not OK, or with an error       *)
(* thrown by fetch or by res.json().                                       *)
(***************************************************************************)
\* most clicks on the button in one behaviour
MaxClicks == 5

\* a message, as the sequence of its parts; the empty message has none
Text(t) == [kind |-> "str", v |-> t]

ResultKey == <<"r", "e", "s", "u", "l", "t">>

\* what the backend may put under "result"
ReplayResults == Scalars \cup Arrays \cup {AB, Num(0), Str(<<>>), Bool(FALSE)}

\* the JSON bodies of an OK response: an object with a result, an object
\* without one, an array, and null
Bodies ==
  {MkObj(<<<<ResultKey, r>>>>) : r \in ReplayResults} \cup {EmptyObj, Arr(<<>>), Null}

\* what fetch or res.json() throw: an Error with a message, an Error with an
\* empty message, a value without a message
ThrownErrors ==
  { [kind |-> "error", message |-> Text(<<"Failed to fetch">>)],
    [kind |-> "error", message |-> Text(<<"Unexpected end of JSON input">>)],
    [kind |-> "error", message |-> Text(<<>>)],
    Undefined }

Outcomes ==
  {[kind |-> "ok", body |-> b] : b \in Bodies}
  \cup {[kind |-> "status", status |-> n] : n \in {"404", "500", "503"}}
  \cup {[kind |-> "thrown", error |-> e] : e \in ThrownErrors}

\* data.result: a TypeError when data is null
ReadResult(body) ==
  IF body.kind \in {"null", "undefined"}
  THEN [kind |-> "error",
        message |-> Text(<<"Cannot read properties of null (reading 'result')">>)]
  ELSE IF body.kind = "obj" /\ \E k \in 1..Len(body.keys) : body.keys[k] = ResultKey
  THEN PropGet(body, ResultKey)
  ELSE Undefined

\* what the try block throws, or that it throws nothing
NotThrown == [kind |-> "nothing"]

ThrownIn(o) ==
  IF o.kind = "thrown" THEN o.error
  ELSE IF o.kind = "status"
  THEN [kind |-> "error", message |-> Text(<<"HTTP ", o.status>>)]
  ELSE IF ReadResult(o.body).kind = "error" THEN ReadResult(o.body)
  ELSE NotThrown

\* e?.message || "Replay failed"
MessageOf(e) ==
  IF e.kind = "error" /\ e.message.v # <<>> THEN e.message ELSE Text(<<"Replay failed">>)

\* setResult(null) at the start of onClick
ResultOnClickKept(old) == old
ResultOnClick(old) == Null

InitReplay ==
  /\ loading = FALSE
  /\ error = Null
  /\ result = Null
  /\ replayRequest = [state |-> "none"]
  /\ clicks = 0
  /\ DiffIdle
  /\ TreeIdle
  /\ PagesIdle
  /\ DndIdle

\* a click on the button, which is disabled while loading
onClick ==
  /\ ~ loading
  /\ clicks < MaxClicks
  /\ loading' = TRUE
  /\ error' = Null
  /\ result' = ResultOnClick(result)
  /\ replayRequest' = [state |-> "pending"]
  /\ clicks' = clicks + 1
  /\ UNCHANGED <<diffVars, treeVars, pageVars, dndVars>>

\* the request settles with outcome o: the rest of try, catch and finally
Settle(o) ==
  /\ replayRequest.state = "pending"
  /\ IF ThrownIn(o) = NotThrown
     THEN /\ result' = ReadResult(o.body)
          /\ UNCHANGED error
     ELSE /\ error' = MessageOf(ThrownIn(o))
          /\ UNCHANGED result
  /\ loading' = FALSE
  /\ replayRequest' = [state |-> "settled", outcome |-> o]
  /\ UNCHANGED <<clicks, diffVars, treeVars, pageVars, dndVars>>

Settles == \E o \in Outcomes : Settle(o)

NextReplay == onClick \/ Settles

SpecReplay == InitReplay /\ [][NextReplay]_vars

(***************************************************************************)
(* C24: ReplayButton keeps loading, error and result consistent over all   *)
(* clicks and outcomes: error and result are never both set; loading is    *)
(* true exactly while a request is on the way; after a request that failed *)
(* (a response that is not OK, or an error thrown in the try block) error  *)
(* is a message and result is null; after one that succeeded result is     *)
(* data.result and error is null.                                          *)
(***************************************************************************)
Failure(o) ==
  \/ o.kind \in {"status", "thrown"}
  \/ o.kind = "ok" /\ o.body = Null

C24_StateConsistent ==
  /\ ~ (error # Null /\ result # Null)
  /\ loading <=> replayRequest.state = "pending"
  /\ replayRequest.state = "pending" => (error = Null /\ result = Null)
  /\ replayRequest.state = "settled" =>
       IF Failure(replayRequest.outcome)
       THEN /\ error.kind = "str"
            /\ error.v # <<>>
            /\ result = Null
       ELSE /\ error = Null
            /\ result = ReadResult(replayRequest.outcome.body)

\* a request that failed with HTTP 500, after an earlier click
C24_Witness ==
  /\ clicks >= 2
  /\ replayRequest.state = "settled"
  /\ replayRequest.outcome.kind = "status"
  /\ error = Text(<<"HTTP ", "500">>)
  /\ result = Null
  /\ ~ loading

====
